---- MODULE Spec2Model ----
(***************************************************************************)
(* MYCIN-style certainty-factor engine of back-end/src/certainty_factors.py *)
(* as a state machine: one call of evaluate_rules, stepped rule by rule.    *)
(*                                                                          *)
(* Certainty factors are Python floats in the source.  They are modelled    *)
(* as exact rationals <<n, d>> in lowest terms with d > 0, so that equal    *)
(* numbers are equal values; IEEE-754 rounding is not modelled.             *)
(***************************************************************************)
EXTENDS Integers, Sequences, FiniteSets, TLC

VARIABLES
    fn,         \* the function of the module that is called
    args,       \* the arguments of a call of one of the pure functions
    evidence,   \* the caller's evidence dict (argument of evaluate_rules)
    rules,      \* the caller's rule list (argument of evaluate_rules)
    facts,      \* local dict `facts`
    trace,      \* local list `trace`
    idx,        \* position of the for loop: index of the rule considered next
    pc,         \* "call", "loop", "returned" or "raised"
    result,     \* what the caller received: None or [facts, trace]
    err,        \* the exception the caller received: None or a ValueError
    outcome     \* history: per rule position, what the loop did with it

vars == <<fn, args, evidence, rules, facts, trace, idx, pc, result, err, outcome>>

-----------------------------------------------------------------------------
(* Bounds of the model *)

MaxRules == 2

\* pure functions: CF inputs are the tenths from -GridMax/10 to GridMax/10
GridMax == 15

\* longest list given to cf_and and cf_or
MaxSeqLen == 3

\* longest top-k list given to build_evidence_from_model
MaxTopK == 2

\* longest label (in characters) drawn over the two-letter alphabet
MaxLabelLen == 2

-----------------------------------------------------------------------------
(* Rational arithmetic standing for Python's float arithmetic.  Python
   evaluates the arguments of a call once, before the call: the operators that
   use an argument several times are functions of the argument values. *)

Abs(n) == IF n < 0 THEN -n ELSE n

GCD[m \in Nat, n \in Nat] == IF n = 0 THEN m ELSE GCD[n, m % n]

\* n/d in lowest terms with a positive denominator (d # 0)
Rat(n, d) ==
    LET s == IF d < 0 THEN -1 ELSE 1
        g == GCD[Abs(n), Abs(d)]
    IN  <<(s * n) \div g, (s * d) \div g>>

Zero == Rat(0, 1)
One == Rat(1, 1)
MinusOne == Rat(-1, 1)

\* sums over the least common denominator and products with cross-cancellation
\* keep the intermediate integers small
RAdd(x, y) ==
    LET add[a \in Int \X Int, b \in Int \X Int] ==
            LET g == GCD[a[2], b[2]]
            IN  Rat(a[1] * (b[2] \div g) + b[1] * (a[2] \div g), (a[2] \div g) * b[2])
    IN  add[x, y]
RNeg(x) == <<-x[1], x[2]>>
RSub(x, y) == RAdd(x, RNeg(y))
RMul(x, y) ==
    LET mul[a \in Int \X Int, b \in Int \X Int] ==
            LET g1 == GCD[Abs(a[1]), b[2]]
                g2 == GCD[Abs(b[1]), a[2]]
            IN  <<(a[1] \div g1) * (b[1] \div g2), (a[2] \div g2) * (b[2] \div g1)>>
    IN  mul[x, y]
\* x / y for y # 0
RDiv(x, y) == RMul(x, IF y[1] < 0 THEN <<-y[2], -y[1]>> ELSE <<y[2], y[1]>>)
RAbs(x) == <<Abs(x[1]), x[2]>>
\* comparisons over the least common denominator
RLt(x, y) ==
    LET lt[a \in Int \X Int, b \in Int \X Int] ==
            LET g == GCD[a[2], b[2]]
            IN  a[1] * (b[2] \div g) < b[1] * (a[2] \div g)
    IN  lt[x, y]
RLe(x, y) ==
    LET le[a \in Int \X Int, b \in Int \X Int] ==
            LET g == GCD[a[2], b[2]]
            IN  a[1] * (b[2] \div g) <= b[1] * (a[2] \div g)
    IN  le[x, y]

\* Python's builtin min(x, y) / max(x, y): the first argument wins ties
PyMin(x, y) ==
    LET min[a \in Int \X Int, b \in Int \X Int] == IF RLt(b, a) THEN b ELSE a
    IN  min[x, y]
PyMax(x, y) ==
    LET max[a \in Int \X Int, b \in Int \X Int] == IF RLt(a, b) THEN b ELSE a
    IN  max[x, y]

\* Python's min(list) / max(list) over a non-empty list
RECURSIVE PyMinSeq(_)
PyMinSeq(s) == IF Len(s) = 1 THEN s[1] ELSE PyMin(s[1], PyMinSeq(Tail(s)))

RECURSIVE PyMaxSeq(_)
PyMaxSeq(s) == IF Len(s) = 1 THEN s[1] ELSE PyMax(s[1], PyMaxSeq(Tail(s)))

\* Python's None
None == << >>

-----------------------------------------------------------------------------
(* CF algebra *)

\* mutant: the value is passed through unclamped
ClampCf_NoClamp(x) == x

\* mutant: only the upper end is clamped
ClampCf_UpperOnly(x) == PyMin(One, x)

ClampCf(x) ==
    LET clamp[v \in Int \X Int] == PyMax(MinusOne, PyMin(One, v))
    IN  clamp[x]

\* mutant: the first element instead of the minimum
CfAnd_First(cfs) == IF cfs # << >> THEN cfs[1] ELSE Zero

CfAnd(cfs) ==
    LET and[v \in Seq(Int \X Int)] == IF v # << >> THEN PyMinSeq(v) ELSE Zero
    IN  and[cfs]

CfOr(cfs) ==
    LET or[v \in Seq(Int \X Int)] == IF v # << >> THEN PyMaxSeq(v) ELSE Zero
    IN  or[cfs]

\* mutant: only the upper end of [0, 1] is validated
ValidRuleCf_UpperOnly(rule_cf) == RLe(rule_cf, One)

ValidRuleCf(rule_cf) == RLe(Zero, rule_cf) /\ RLe(rule_cf, One)

\* mutant: an out-of-range rule_cf is clamped into [0, 1] and used
ApplyRule_ClampsRuleCf(evidence_cf, rule_cf) ==
    [raised |-> FALSE,
     value |-> ClampCf(RMul(evidence_cf, PyMax(Zero, PyMin(One, rule_cf))))]

\* apply_rule: a ValueError for a rule_cf outside [0, 1], else the clamped product
ApplyRule(evidence_cf, rule_cf) ==
    LET apply[e \in Int \X Int, r \in Int \X Int] ==
            IF ~ValidRuleCf(r)
            THEN [raised |-> TRUE,
                  exc |-> [type |-> "ValueError",
                           template |-> "rule_cf must be in [0, 1], got {rule_cf}",
                           args |-> [rule_cf |-> r]]]
            ELSE [raised |-> FALSE, value |-> ClampCf(RMul(e, r))]
    IN  apply[evidence_cf, rule_cf]

\* mutant: the magnitude of the first operand is subtracted
CombineDenominator_First(cf1, cf2) == RSub(One, RAbs(cf1))

\* mutant: the larger magnitude is subtracted
CombineDenominator_Max(cf1, cf2) == RSub(One, PyMax(RAbs(cf1), RAbs(cf2)))

\* line 102: the denominator of the mixed-sign branch
CombineDenominator(cf1, cf2) == RSub(One, PyMin(RAbs(cf1), RAbs(cf2)))

\* mutant: the fallback is taken when the operands cancel
CombineBranch_FallbackOnZeroSum(cf1, cf2) ==
    IF RLt(Zero, cf1) /\ RLt(Zero, cf2) THEN "both_positive"
    ELSE IF RLt(cf1, Zero) /\ RLt(cf2, Zero) THEN "both_negative"
    ELSE IF RAdd(cf1, cf2) = Zero THEN "zero_denominator"
    ELSE "quotient"

\* lines 94-107: the branch of cf_combine that computes the result
CombineBranch(cf1, cf2) ==
    IF RLt(Zero, cf1) /\ RLt(Zero, cf2) THEN "both_positive"
    ELSE IF RLt(cf1, Zero) /\ RLt(cf2, Zero) THEN "both_negative"
    ELSE IF CombineDenominator(cf1, cf2) = Zero THEN "zero_denominator"
    ELSE "quotient"

\* mutant: no guard against a zero denominator (None stands for the
\* ZeroDivisionError that follows)
CfCombine_NoZeroGuard(cf1, cf2) ==
    IF RLt(Zero, cf1) /\ RLt(Zero, cf2)
    THEN ClampCf(RAdd(cf1, RMul(cf2, RSub(One, cf1))))
    ELSE IF RLt(cf1, Zero) /\ RLt(cf2, Zero)
    THEN ClampCf(RAdd(cf1, RMul(cf2, RAdd(One, cf1))))
    ELSE LET denominator == RSub(One, PyMin(RAbs(cf1), RAbs(cf2)))
         IN  IF denominator = Zero
             THEN None
             ELSE ClampCf(RDiv(RAdd(cf1, cf2), denominator))

\* mutant: the both-negative case uses the both-positive formula
CfCombine_OneFormula(cf1, cf2) ==
    IF (RLt(Zero, cf1) /\ RLt(Zero, cf2)) \/ (RLt(cf1, Zero) /\ RLt(cf2, Zero))
    THEN ClampCf(RAdd(cf1, RMul(cf2, RSub(One, cf1))))
    ELSE LET denominator == RSub(One, PyMin(RAbs(cf1), RAbs(cf2)))
         IN  IF denominator = Zero
             THEN ClampCf(ClampCf(RAdd(cf1, cf2)))
             ELSE ClampCf(RDiv(RAdd(cf1, cf2), denominator))

\* mutant: the two CFs are averaged
CfCombine_Average(cf1, cf2) == ClampCf(RMul(RAdd(cf1, cf2), Rat(1, 2)))

\* cf_combine: the formula of the branch taken, then the final clamp
CfCombine(cf1, cf2) ==
    LET combine[a \in Int \X Int, b \in Int \X Int] ==
            LET branch == CombineBranch(a, b)
                denominator == CombineDenominator(a, b)
                result_ ==
                    CASE branch = "both_positive" -> RAdd(a, RMul(b, RSub(One, a)))
                      [] branch = "both_negative" -> RAdd(a, RMul(b, RAdd(One, a)))
                      [] branch = "zero_denominator" -> ClampCf(RAdd(a, b))
                      [] branch = "quotient" -> RDiv(RAdd(a, b), denominator)
            IN  ClampCf(result_)
    IN  combine[cf1, cf2]

-----------------------------------------------------------------------------
(* Evidence builders *)

\* str.strip(): a string is the sequence of its characters
RECURSIVE LStrip(_)
LStrip(str) == IF str # << >> /\ Head(str) = " " THEN LStrip(Tail(str)) ELSE str

RECURSIVE RStrip(_)
RStrip(str) ==
    IF str # << >> /\ str[Len(str)] = " "
    THEN RStrip(SubSeq(str, 1, Len(str) - 1))
    ELSE str

Strip(str) == LStrip(RStrip(str))

ImgPrefix == <<"i", "m", "g", "_">>

\* item.get(key, default)
ItemGet(item, key, default) == IF key \in DOMAIN item THEN item[key] ELSE default

\* mutant: the probability is only passed through clamp_cf
ModelProbCf_ClampCfOnly(prob) == ClampCf(prob)

\* lines 232 and 235: clamp to [0, 1], then clamp_cf
ModelProbCf(prob) == ClampCf(PyMax(Zero, PyMin(One, prob)))

\* lines 228-235: the loop over topk, evidence[fact_name] = ... on a dict
RECURSIVE BuildModelLoop(_, _)
BuildModelLoop(ev, topk) ==
    IF topk = << >>
    THEN ev
    ELSE LET item == Head(topk)
             label == Strip(ItemGet(item, "label", << >>))
             prob == ItemGet(item, "prob", Zero)
             fact_name == ImgPrefix \o label
         IN  BuildModelLoop(
                 [k \in DOMAIN ev \cup {fact_name} |->
                     IF k = fact_name THEN ModelProbCf(prob) ELSE ev[k]],
                 Tail(topk))

BuildEvidenceFromModel(topk) == BuildModelLoop(<< >>, topk)

SymptomCfMap ==
    [rapid_change |-> Rat(7, 10), bleeding |-> Rat(3, 5),
     itching |-> Rat(3, 10), pain |-> Rat(2, 5)]

\* mutant: only the symptoms the intake mentions get a fact
BuildEvidenceFromIntake_OnlyPresent(intake) ==
    [symptom \in DOMAIN SymptomCfMap \cap DOMAIN intake |->
        IF intake[symptom] THEN SymptomCfMap[symptom] ELSE Zero]

BuildEvidenceFromIntake(intake) ==
    [symptom \in DOMAIN SymptomCfMap |->
        IF ItemGet(intake, symptom, FALSE) THEN SymptomCfMap[symptom] ELSE Zero]

-----------------------------------------------------------------------------
(* Inputs *)

FactNames == {"a", "b", "c"}

\* CF values a caller may supply, two of them outside [-1, 1]
EvidenceValues == {Rat(-3, 2), Rat(3, 5), Rat(4, 5), Rat(3, 2)}

EvidenceSet == UNION {[S -> EvidenceValues] : S \in SUBSET FactNames}

RuleIds == <<"R1", "R2", "R3", "R4">>

Half == Rat(1, 2)

\* Rule bodies (a Rule without its id)
Body(premises, operator, rule_cf, conclusion) ==
    [premises |-> premises, operator |-> operator,
     rule_cf |-> rule_cf, conclusion |-> conclusion]

WellFormedBodies ==
    { Body(p, "AND", Half, c) : p \in {<<"a">>, <<"c">>, <<"a", "c">>}, c \in {"b", "c"} }
    \cup
    { Body(<<"a", "c">>, "OR", Half, "b"),
      Body(<<"c", "c">>, "OR", One, "b"),
      Body(<<"a">>, "OR", One, "c"),
      Body(<<"c">>, "OR", Zero, "c"),
      Body(<< >>, "AND", Half, "b"),
      Body(<< >>, "OR", One, "c") }

MalformedBodies ==
    { Body(<<"a">>, "XOR", Half, "b"),
      Body(<<"a">>, "AND", Rat(13, 10), "b"),
      Body(<<"c">>, "OR", Rat(-1, 10), "b"),
      Body(<<"a">>, "XOR", Rat(13, 10), "b") }

RuleBodies == WellFormedBodies \cup MalformedBodies

\* class Rule: a body with the id of its position
Rule(id, body) ==
    [id |-> id, premises |-> body.premises, operator |-> body.operator,
     rule_cf |-> body.rule_cf, conclusion |-> body.conclusion]

RuleLists ==
    UNION { { [i \in 1..n |-> Rule(RuleIds[i], bs[i])] : bs \in [1..n -> RuleBodies] }
            : n \in 0..MaxRules }

-----------------------------------------------------------------------------
(* evaluate_rules *)

ValidOperator(rule) == rule.operator \in {"AND", "OR"}

\* mutant: a rule without premises has nothing present
AllPremisesPresent_NonEmpty(f, rule) ==
    /\ rule.premises # << >>
    /\ \A m \in 1..Len(rule.premises) : rule.premises[m] \in DOMAIN f

\* all(p in facts for p in rule.premises)
AllPremisesPresent(f, rule) ==
    \A m \in 1..Len(rule.premises) : rule.premises[m] \in DOMAIN f

\* mutant: premises are read from the evidence as it was before the pass
PremiseCfs_Snapshot(f, rule) ==
    [m \in 1..Len(rule.premises) |->
        IF rule.premises[m] \in DOMAIN evidence
        THEN ClampCf(evidence[rule.premises[m]])
        ELSE f[rule.premises[m]]]

\* mutant: a repeated premise name is read once, at its first occurrence
PremiseCfs_Dedup(f, rule) ==
    LET first == {m \in 1..Len(rule.premises) :
                    \A j \in 1..(m - 1) : rule.premises[j] # rule.premises[m]}
        nth(i) == CHOOSE m \in first : Cardinality({j \in first : j <= m}) = i
    IN  [i \in 1..Cardinality(first) |-> f[rule.premises[nth(i)]]]

PremiseCfs(f, rule) == [m \in 1..Len(rule.premises) |-> f[rule.premises[m]]]

\* mutant: the operator is ignored and the minimum is always taken
PremiseCf_AlwaysAnd(rule, premise_cfs) == CfAnd(premise_cfs)

PremiseCf(rule, premise_cfs) ==
    IF rule.operator = "AND" THEN CfAnd(premise_cfs) ELSE CfOr(premise_cfs)

\* mutant: facts.get(key, 0.0)
DictGet_DefaultZero(f, key) == IF key \in DOMAIN f THEN f[key] ELSE Zero

\* dict.get(key): None when the key is absent
DictGet(f, key) == IF key \in DOMAIN f THEN f[key] ELSE None

\* mutant: the assignment replaces the whole dict
DictSet_DropsOthers(f, key, value) == [k \in {key} |-> value]

\* mutant: an existing key keeps its value
DictSet_KeepsExisting(f, key, value) ==
    [k \in DOMAIN f \cup {key} |-> IF k \in DOMAIN f THEN f[k] ELSE value]

\* f[key] = value on a dict
DictSet(f, key, value) ==
    [k \in DOMAIN f \cup {key} |-> IF k = key THEN value ELSE f[k]]

\* mutant: the pass is repeated while some rule was skipped
NextIndex_Restart(i) ==
    IF i = Len(rules) /\ Len(trace) < Len(rules)
         /\ \E k \in 1..Len(rules) : outcome[k] = "skipped"
    THEN 1
    ELSE i + 1

\* mutant: the last rule is considered again while the trace is shorter than
\* the rule list
NextIndex_RepeatLast(i) ==
    IF i = Len(rules) /\ Len(trace) < Len(rules) THEN i ELSE i + 1

NextIndex(i) == i + 1

Init ==
    /\ fn = "evaluate_rules"
    /\ args = None
    /\ evidence \in EvidenceSet
    /\ rules \in RuleLists
    /\ facts = << >>
    /\ trace = << >>
    /\ idx = 0
    /\ pc = "call"
    /\ result = None
    /\ err = None
    /\ outcome = [i \in 1..Len(rules) |-> "pending"]

\* mutant: evidence outside [-1, 1] is dropped instead of clamped
Enter_DropsOutOfRange ==
    /\ pc = "call"
    /\ facts' = [k \in {k \in DOMAIN evidence : ClampCf(evidence[k]) = evidence[k]}
                    |-> evidence[k]]
    /\ trace' = << >>
    /\ idx' = 1
    /\ pc' = "loop"
    /\ UNCHANGED <<fn, args, evidence, rules, result, err, outcome>>

\* mutant: the evidence is clamped in place and used as the fact mapping
Enter_ClampsInPlace ==
    /\ pc = "call"
    /\ evidence' = [k \in DOMAIN evidence |-> ClampCf(evidence[k])]
    /\ facts' = evidence'
    /\ trace' = << >>
    /\ idx' = 1
    /\ pc' = "loop"
    /\ UNCHANGED <<fn, args, rules, result, err, outcome>>

\* lines 159-161: facts = clamped copy of the evidence, trace = []
Enter ==
    /\ pc = "call"
    /\ facts' = [k \in DOMAIN evidence |-> ClampCf(evidence[k])]
    /\ trace' = << >>
    /\ idx' = 1
    /\ pc' = "loop"
    /\ UNCHANGED <<fn, args, evidence, rules, result, err, outcome>>

\* lines 165-166
RaiseInvalidOperator ==
    /\ pc = "loop"
    /\ idx <= Len(rules)
    /\ LET rule == rules[idx] IN
        /\ ~ValidOperator(rule)
        /\ err' = [type |-> "ValueError",
                   template |-> "Invalid operator '{operator}'. Must be 'AND' or 'OR'.",
                   args |-> [operator |-> rule.operator]]
    /\ pc' = "raised"
    /\ outcome' = [outcome EXCEPT ![idx] = "invalid"]
    /\ UNCHANGED <<fn, args, evidence, rules, facts, trace, idx, result>>

\* lines 167-168
RaiseInvalidRuleCf ==
    /\ pc = "loop"
    /\ idx <= Len(rules)
    /\ LET rule == rules[idx] IN
        /\ ValidOperator(rule)
        /\ ~ValidRuleCf(rule.rule_cf)
        /\ err' = [type |-> "ValueError",
                   template |-> "Rule {id} has invalid rule_cf: {rule_cf}",
                   args |-> [id |-> rule.id, rule_cf |-> rule.rule_cf]]
    /\ pc' = "raised"
    /\ outcome' = [outcome EXCEPT ![idx] = "invalid"]
    /\ UNCHANGED <<fn, args, evidence, rules, facts, trace, idx, result>>

\* mutant: the premise check comes before the validation of the rule
SkipRule_BeforeValidation ==
    /\ pc = "loop"
    /\ idx <= Len(rules)
    /\ ~AllPremisesPresent(facts, rules[idx])
    /\ idx' = NextIndex(idx)
    /\ outcome' = [outcome EXCEPT ![idx] = "skipped"]
    /\ UNCHANGED <<fn, args, evidence, rules, facts, trace, pc, result, err>>

\* mutant: a skipped rule still gives its conclusion a default CF
SkipRule_DefaultsConclusion ==
    /\ pc = "loop"
    /\ idx <= Len(rules)
    /\ LET rule == rules[idx] IN
        /\ ValidOperator(rule)
        /\ ValidRuleCf(rule.rule_cf)
        /\ ~AllPremisesPresent(facts, rule)
        /\ facts' = IF rule.conclusion \in DOMAIN facts
                    THEN facts
                    ELSE DictSet(facts, rule.conclusion, Zero)
    /\ idx' = NextIndex(idx)
    /\ outcome' = [outcome EXCEPT ![idx] = "skipped"]
    /\ UNCHANGED <<fn, args, evidence, rules, trace, pc, result, err>>

\* mutant: a skipped rule is logged in the trace
SkipRule_LogsEntry ==
    /\ pc = "loop"
    /\ idx <= Len(rules)
    /\ LET rule == rules[idx] IN
        /\ ValidOperator(rule)
        /\ ValidRuleCf(rule.rule_cf)
        /\ ~AllPremisesPresent(facts, rule)
        /\ trace' = Append(trace,
              [rule_id |-> rule.id,
               operator |-> rule.operator,
               premises |-> rule.premises,
               premise_cfs |-> << >>,
               premise_cf |-> Zero,
               rule_cf |-> rule.rule_cf,
               conclusion |-> rule.conclusion,
               contrib_cf |-> Zero,
               previous_conclusion_cf |-> DictGet(facts, rule.conclusion),
               new_conclusion_cf |-> Zero])
    /\ idx' = NextIndex(idx)
    /\ outcome' = [outcome EXCEPT ![idx] = "skipped"]
    /\ UNCHANGED <<fn, args, evidence, rules, facts, pc, result, err>>

\* lines 170-172
SkipRule ==
    /\ pc = "loop"
    /\ idx <= Len(rules)
    /\ LET rule == rules[idx] IN
        /\ ValidOperator(rule)
        /\ ValidRuleCf(rule.rule_cf)
        /\ ~AllPremisesPresent(facts, rule)
    /\ idx' = NextIndex(idx)
    /\ outcome' = [outcome EXCEPT ![idx] = "skipped"]
    /\ UNCHANGED <<fn, args, evidence, rules, facts, trace, pc, result, err>>

\* lines 174-208
FireRule ==
    /\ pc = "loop"
    /\ idx <= Len(rules)
    /\ LET rule == rules[idx] IN
        /\ ValidOperator(rule)
        /\ ValidRuleCf(rule.rule_cf)
        /\ AllPremisesPresent(facts, rule)
        /\ LET premise_cfs == PremiseCfs(facts, rule)
               premise_cf == PremiseCf(rule, premise_cfs)
               applied == ApplyRule(premise_cf, rule.rule_cf)
           IN  IF applied.raised
               THEN /\ err' = applied.exc
                    /\ pc' = "raised"
                    /\ outcome' = [outcome EXCEPT ![idx] = "invalid"]
                    /\ UNCHANGED <<facts, trace, idx>>
               ELSE LET contrib_cf == applied.value
                        previous_conclusion_cf == DictGet(facts, rule.conclusion)
                        new_conclusion_cf ==
                            IF rule.conclusion \in DOMAIN facts
                            THEN CfCombine(facts[rule.conclusion], contrib_cf)
                            ELSE contrib_cf
                    IN  /\ facts' = DictSet(facts, rule.conclusion, new_conclusion_cf)
                        /\ trace' = Append(trace,
                              [rule_id |-> rule.id,
                               operator |-> rule.operator,
                               premises |-> rule.premises,
                               premise_cfs |-> premise_cfs,
                               premise_cf |-> premise_cf,
                               rule_cf |-> rule.rule_cf,
                               conclusion |-> rule.conclusion,
                               contrib_cf |-> contrib_cf,
                               previous_conclusion_cf |-> previous_conclusion_cf,
                               new_conclusion_cf |-> new_conclusion_cf])
                        /\ idx' = NextIndex(idx)
                        /\ outcome' = [outcome EXCEPT ![idx] = "fired"]
                        /\ UNCHANGED <<pc, err>>
    /\ UNCHANGED <<fn, args, evidence, rules, result>>

\* line 210
Return ==
    /\ pc = "loop"
    /\ idx > Len(rules)
    /\ result' = [facts |-> facts, trace |-> trace]
    /\ pc' = "returned"
    /\ UNCHANGED <<fn, args, evidence, rules, facts, trace, idx, err, outcome>>

Next ==
    \/ Enter
    \/ RaiseInvalidOperator
    \/ RaiseInvalidRuleCf
    \/ SkipRule
    \/ FireRule
    \/ Return

Spec == Init /\ [][Next]_vars

\* evaluate_rules is synchronous straight-line code with a for loop over a
\* list: a call that can take a step takes it
FairSpec == Spec /\ WF_vars(Next)

-----------------------------------------------------------------------------
(* evaluate_rules on the default rule list *)

\* mutant: R_NEEDS_REVIEW asks for the high-risk flag alone
SkinaiRules_ReviewOnHighRisk ==
    << Rule("R_MEL_RAPID", Body(<<"img_mel", "rapid_change">>, "AND", Rat(17, 20), "high_risk_flag")),
       Rule("R_MEL_BLEED", Body(<<"img_mel", "bleeding">>, "AND", Rat(9, 10), "high_risk_flag")),
       Rule("R_MEL_ALONE", Body(<<"img_mel">>, "AND", Rat(3, 4), "high_risk_flag")),
       Rule("R_BCC_AKIEC", Body(<<"img_bcc", "img_akiec">>, "OR", Rat(13, 20), "moderate_risk_flag")),
       Rule("R_BCC_ALONE", Body(<<"img_bcc">>, "AND", Rat(3, 5), "moderate_risk_flag")),
       Rule("R_AKIEC_ALONE", Body(<<"img_akiec">>, "AND", Rat(29, 50), "moderate_risk_flag")),
       Rule("R_NV_RAPID", Body(<<"img_nv", "rapid_change">>, "AND", Rat(11, 20), "moderate_risk_flag")),
       Rule("R_NV_BLEED", Body(<<"img_nv", "bleeding">>, "AND", Rat(13, 20), "moderate_risk_flag")),
       Rule("R_NV_STABLE", Body(<<"img_nv">>, "AND", Rat(3, 5), "low_risk_flag")),
       Rule("R_BKL_ALONE", Body(<<"img_bkl">>, "AND", Rat(13, 20), "low_risk_flag")),
       Rule("R_VASC_ALONE", Body(<<"img_vasc">>, "AND", Rat(7, 10), "low_risk_flag")),
       Rule("R_DF_ALONE", Body(<<"img_df">>, "AND", Rat(3, 4), "low_risk_flag")),
       Rule("R_NEEDS_REVIEW", Body(<<"high_risk_flag">>, "OR", Rat(3, 4),
                                   "needs_clinician_review")) >>

\* get_skinai_rules(): the thirteen rules, in the order of the list
SkinaiRules ==
    << Rule("R_MEL_RAPID", Body(<<"img_mel", "rapid_change">>, "AND", Rat(17, 20), "high_risk_flag")),
       Rule("R_MEL_BLEED", Body(<<"img_mel", "bleeding">>, "AND", Rat(9, 10), "high_risk_flag")),
       Rule("R_MEL_ALONE", Body(<<"img_mel">>, "AND", Rat(3, 4), "high_risk_flag")),
       Rule("R_BCC_AKIEC", Body(<<"img_bcc", "img_akiec">>, "OR", Rat(13, 20), "moderate_risk_flag")),
       Rule("R_BCC_ALONE", Body(<<"img_bcc">>, "AND", Rat(3, 5), "moderate_risk_flag")),
       Rule("R_AKIEC_ALONE", Body(<<"img_akiec">>, "AND", Rat(29, 50), "moderate_risk_flag")),
       Rule("R_NV_RAPID", Body(<<"img_nv", "rapid_change">>, "AND", Rat(11, 20), "moderate_risk_flag")),
       Rule("R_NV_BLEED", Body(<<"img_nv", "bleeding">>, "AND", Rat(13, 20), "moderate_risk_flag")),
       Rule("R_NV_STABLE", Body(<<"img_nv">>, "AND", Rat(3, 5), "low_risk_flag")),
       Rule("R_BKL_ALONE", Body(<<"img_bkl">>, "AND", Rat(13, 20), "low_risk_flag")),
       Rule("R_VASC_ALONE", Body(<<"img_vasc">>, "AND", Rat(7, 10), "low_risk_flag")),
       Rule("R_DF_ALONE", Body(<<"img_df">>, "AND", Rat(3, 4), "low_risk_flag")),
       Rule("R_NEEDS_REVIEW", Body(<<"high_risk_flag", "moderate_risk_flag">>, "OR", Rat(3, 4),
                                   "needs_clinician_review")) >>

\* initial facts given with the default rules: classifier facts, intake facts
\* and facts named like the rules' conclusions, each absent or with the CF here
SkinFactValues ==
    [img_mel |-> Half, img_bcc |-> Half, img_akiec |-> Rat(1, 5), img_nv |-> One,
     rapid_change |-> SymptomCfMap["rapid_change"], bleeding |-> Zero,
     high_risk_flag |-> Half, moderate_risk_flag |-> Rat(-1, 2),
     needs_clinician_review |-> Rat(1, 5)]

SkinEvidences ==
    {[k \in S |-> SkinFactValues[k]] : S \in SUBSET DOMAIN SkinFactValues}

InitSkin ==
    /\ fn = "evaluate_rules"
    /\ args = None
    /\ evidence \in SkinEvidences
    /\ rules = SkinaiRules
    /\ facts = << >>
    /\ trace = << >>
    /\ idx = 0
    /\ pc = "call"
    /\ result = None
    /\ err = None
    /\ outcome = [i \in 1..Len(rules) |-> "pending"]

\* the steps of evaluate_rules that a list of well-formed rules can take
NextSkin ==
    \/ Enter
    \/ SkipRule
    \/ FireRule
    \/ Return

SpecSkin == InitSkin /\ [][NextSkin]_vars

-----------------------------------------------------------------------------
(* evaluate_rules on a list of well-formed rules as a function of its inputs *)

\* lines 170-193: the fact mapping after one well-formed rule
FactsAfterRule(f, rule) ==
    IF ~AllPremisesPresent(f, rule)
    THEN f
    ELSE LET premise_cfs == PremiseCfs(f, rule)
             premise_cf == PremiseCf(rule, premise_cfs)
             contrib_cf == ApplyRule(premise_cf, rule.rule_cf).value
             new_conclusion_cf ==
                 IF rule.conclusion \in DOMAIN f
                 THEN CfCombine(f[rule.conclusion], contrib_cf)
                 ELSE contrib_cf
         IN  DictSet(f, rule.conclusion, new_conclusion_cf)

\* line 163: the loop over the rules
RECURSIVE RunRules(_, _)
RunRules(f, rs) ==
    IF rs = << >> THEN f ELSE RunRules(FactsAfterRule(f, Head(rs)), Tail(rs))

\* lines 159-210: the returned fact mapping
EvaluateFacts(ev, rs) == RunRules([k \in DOMAIN ev |-> ClampCf(ev[k])], rs)

-----------------------------------------------------------------------------
(* The pure functions of the module, each called once on an input *)

CfGrid == {Rat(n, 10) : n \in (-GridMax)..GridMax}

CfSeqValues == {Rat(-3, 2), MinusOne, Rat(-1, 2), Zero, Rat(3, 5), One}

CfSeqs == UNION {[1..n -> CfSeqValues] : n \in 0..MaxSeqLen}

Labels ==
    UNION {[1..n -> {" ", "m"}] : n \in 0..MaxLabelLen} \cup {<<"m", "e", "l">>}

ProbValues == {Rat(-1, 2), Rat(31, 50), Rat(7, 5)}

TopKItems ==
    {[label |-> l, prob |-> p] : l \in Labels, p \in ProbValues}
    \cup {[label |-> l] : l \in Labels}
    \cup {[prob |-> p] : p \in ProbValues}

TopKLists == UNION {[1..n -> TopKItems] : n \in 0..MaxTopK}

IntakeKeys == DOMAIN SymptomCfMap \cup {"age"}

Intakes == UNION {[S -> BOOLEAN] : S \in SUBSET IntakeKeys}

InitPure ==
    /\ \/ fn = "clamp_cf" /\ args \in {<<x>> : x \in CfGrid}
       \/ fn \in {"cf_and", "cf_or"} /\ args \in {<<cfs>> : cfs \in CfSeqs}
       \/ fn \in {"apply_rule", "cf_combine"} /\ args \in CfGrid \X CfGrid
       \/ fn = "build_evidence_from_model" /\ args \in {<<t>> : t \in TopKLists}
       \/ fn = "build_evidence_from_intake" /\ args \in {<<i>> : i \in Intakes}
    /\ evidence = << >>
    /\ rules = << >>
    /\ facts = << >>
    /\ trace = << >>
    /\ idx = 0
    /\ pc = "call"
    /\ result = None
    /\ err = None
    /\ outcome = << >>

Returns(value) ==
    /\ result' = value
    /\ pc' = "returned"
    /\ UNCHANGED <<fn, args, evidence, rules, facts, trace, idx, err, outcome>>

CallClampCf == pc = "call" /\ fn = "clamp_cf" /\ Returns(ClampCf(args[1]))

CallCfAnd == pc = "call" /\ fn = "cf_and" /\ Returns(CfAnd(args[1]))

CallCfOr == pc = "call" /\ fn = "cf_or" /\ Returns(CfOr(args[1]))

CallApplyRule ==
    /\ pc = "call"
    /\ fn = "apply_rule"
    /\ LET applied == ApplyRule(args[1], args[2])
       IN  IF applied.raised
           THEN /\ err' = applied.exc
                /\ pc' = "raised"
                /\ UNCHANGED <<fn, args, evidence, rules, facts, trace, idx,
                               result, outcome>>
           ELSE Returns(applied.value)

CallCfCombine == pc = "call" /\ fn = "cf_combine" /\ Returns(CfCombine(args[1], args[2]))

CallBuildEvidenceFromModel ==
    pc = "call" /\ fn = "build_evidence_from_model"
        /\ Returns(BuildEvidenceFromModel(args[1]))

CallBuildEvidenceFromIntake ==
    pc = "call" /\ fn = "build_evidence_from_intake"
        /\ Returns(BuildEvidenceFromIntake(args[1]))

NextPure ==
    \/ CallClampCf
    \/ CallCfAnd
    \/ CallCfOr
    \/ CallApplyRule
    \/ CallCfCombine
    \/ CallBuildEvidenceFromModel
    \/ CallBuildEvidenceFromIntake

SpecPure == InitPure /\ [][NextPure]_vars

-----------------------------------------------------------------------------
(* Several calls of evaluate_rules in flight at once.  In this specification
   every variable of a call is a function of the call: evidence[c] and rules[c]
   are the arguments of call c, facts[c], trace[c] and the loop position idx[c]
   its locals, result[c] and err[c] what its caller receives. *)

Calls == {1, 2}

ParEvidences ==
    { [k \in {"a"} |-> Rat(4, 5)],
      [k \in {"a", "c"} |-> IF k = "a" THEN Rat(3, 2) ELSE Rat(3, 5)] }

ParBodies ==
    { Body(<<"a">>, "AND", Half, "b"),
      Body(<<"a", "c">>, "OR", Half, "c"),
      Body(<<"a">>, "XOR", Half, "b") }

ParRuleLists ==
    UNION { { [i \in 1..n |-> Rule(RuleIds[i], bs[i])] : bs \in [1..n -> ParBodies] }
            : n \in 0..MaxRules }

\* the locals of a call before its first statement
CallEntry(rs) ==
    [facts |-> << >>, trace |-> << >>, idx |-> 0, pc |-> "call",
     result |-> None, err |-> None, outcome |-> [i \in 1..Len(rs) |-> "pending"]]

\* lines 159-210: one step of a call on its own locals s: the entry, one
\* iteration of the for loop, or the return
StepCall(ev, rs, s) ==
    IF s.pc = "call"
    THEN [s EXCEPT !.facts = [k \in DOMAIN ev |-> ClampCf(ev[k])],
                   !.trace = << >>, !.idx = 1, !.pc = "loop"]
    ELSE IF s.pc # "loop" THEN s
    ELSE IF s.idx > Len(rs)
    THEN [s EXCEPT !.result = [facts |-> s.facts, trace |-> s.trace],
                   !.pc = "returned"]
    ELSE LET rule == rs[s.idx] IN
         IF ~ValidOperator(rule)
         THEN [s EXCEPT !.err = [type |-> "ValueError",
                                 template |-> "Invalid operator '{operator}'. Must be 'AND' or 'OR'.",
                                 args |-> [operator |-> rule.operator]],
                        !.pc = "raised", !.outcome[s.idx] = "invalid"]
         ELSE IF ~ValidRuleCf(rule.rule_cf)
         THEN [s EXCEPT !.err = [type |-> "ValueError",
                                 template |-> "Rule {id} has invalid rule_cf: {rule_cf}",
                                 args |-> [id |-> rule.id, rule_cf |-> rule.rule_cf]],
                        !.pc = "raised", !.outcome[s.idx] = "invalid"]
         ELSE IF ~AllPremisesPresent(s.facts, rule)
         THEN [s EXCEPT !.idx = s.idx + 1, !.outcome[s.idx] = "skipped"]
         ELSE LET premise_cfs == PremiseCfs(s.facts, rule)
                  premise_cf == PremiseCf(rule, premise_cfs)
                  contrib_cf == ApplyRule(premise_cf, rule.rule_cf).value
                  previous_conclusion_cf == DictGet(s.facts, rule.conclusion)
                  new_conclusion_cf ==
                      IF rule.conclusion \in DOMAIN s.facts
                      THEN CfCombine(s.facts[rule.conclusion], contrib_cf)
                      ELSE contrib_cf
              IN  [s EXCEPT
                     !.facts = DictSet(s.facts, rule.conclusion, new_conclusion_cf),
                     !.trace = Append(s.trace,
                          [rule_id |-> rule.id,
                           operator |-> rule.operator,
                           premises |-> rule.premises,
                           premise_cfs |-> premise_cfs,
                           premise_cf |-> premise_cf,
                           rule_cf |-> rule.rule_cf,
                           conclusion |-> rule.conclusion,
                           contrib_cf |-> contrib_cf,
                           previous_conclusion_cf |-> previous_conclusion_cf,
                           new_conclusion_cf |-> new_conclusion_cf]),
                     !.idx = s.idx + 1,
                     !.outcome[s.idx] = "fired"]

\* the locals of call c
CallState(c) ==
    [facts |-> facts[c], trace |-> trace[c], idx |-> idx[c], pc |-> pc[c],
     result |-> result[c], err |-> err[c], outcome |-> outcome[c]]

\* mutant: the variable is module-level, one object shared by every call
Own_Shared(var, c, value) == [d \in DOMAIN var |-> value]

\* an assignment of call c to one of its local variables
Own(var, c, value) == [var EXCEPT ![c] = value]

InitPar ==
    /\ fn = "evaluate_rules"
    /\ args = None
    /\ evidence \in [Calls -> ParEvidences]
    /\ rules \in [Calls -> ParRuleLists]
    /\ facts = [c \in Calls |-> CallEntry(rules[c]).facts]
    /\ trace = [c \in Calls |-> CallEntry(rules[c]).trace]
    /\ idx = [c \in Calls |-> CallEntry(rules[c]).idx]
    /\ pc = [c \in Calls |-> CallEntry(rules[c]).pc]
    /\ result = [c \in Calls |-> CallEntry(rules[c]).result]
    /\ err = [c \in Calls |-> CallEntry(rules[c]).err]
    /\ outcome = [c \in Calls |-> CallEntry(rules[c]).outcome]

\* call c takes its next step while the other calls are anywhere in theirs
ParStep(c) ==
    /\ pc[c] \in {"call", "loop"}
    /\ LET s == StepCall(evidence[c], rules[c], CallState(c))
       IN  /\ facts' = Own(facts, c, s.facts)
           /\ trace' = Own(trace, c, s.trace)
           /\ idx' = Own(idx, c, s.idx)
           /\ pc' = Own(pc, c, s.pc)
           /\ result' = Own(result, c, s.result)
           /\ err' = Own(err, c, s.err)
           /\ outcome' = Own(outcome, c, s.outcome)
    /\ UNCHANGED <<fn, args, evidence, rules>>

NextPar == \E c \in Calls : ParStep(c)

SpecPar == InitPar /\ [][NextPar]_vars

\* a call run alone: its locals after k steps, and when it has finished
RECURSIVE AloneAfter(_, _, _)
AloneAfter(ev, rs, k) ==
    IF k = 0 THEN CallEntry(rs) ELSE StepCall(ev, rs, AloneAfter(ev, rs, k - 1))

RunAlone(ev, rs) == AloneAfter(ev, rs, Len(rs) + 2)

-----------------------------------------------------------------------------
(* Vocabulary of the properties *)

InRange(x) == RLe(MinusOne, x) /\ RLe(x, One)

InUnit(x) == RLe(Zero, x) /\ RLe(x, One)

IsWellFormed(rule) == rule.operator \in {"AND", "OR"} /\ InUnit(rule.rule_cf)

RuleIndexes == 1..Len(rules)

Malformed == {i \in RuleIndexes : ~IsWellFormed(rules[i])}

\* some premise of the rule is not a key of f
SomePremiseAbsent(f, rule) ==
    \E m \in 1..Len(rule.premises) : rule.premises[m] \notin DOMAIN f

FirstMalformed == CHOOSE i \in Malformed : \A j \in Malformed : i <= j

\* position in the rule list of the rule a trace entry records (ids are unique)
PosOf(entry) == CHOOSE i \in RuleIndexes : rules[i].id = entry.rule_id

\* the fact names present when the rule at position i is reached, told from the
\* evidence and the trace alone
KeysBefore(i) ==
    DOMAIN evidence \cup
        {trace[k].conclusion : k \in {k \in 1..Len(trace) : PosOf(trace[k]) < i}}

-----------------------------------------------------------------------------
(* C1: every CF in the fact mapping lies in [-1, 1] after the initial clamping
   and after each rule, and so does every premise_cf, contrib_cf,
   previous_conclusion_cf (when there is one) and new_conclusion_cf of the trace. *)
C1_CfInRange ==
    /\ \A k \in DOMAIN facts : InRange(facts[k])
    /\ \A i \in 1..Len(trace) :
        /\ InRange(trace[i].premise_cf)
        /\ InRange(trace[i].contrib_cf)
        /\ InRange(trace[i].new_conclusion_cf)
        /\ trace[i].previous_conclusion_cf # None
              => InRange(trace[i].previous_conclusion_cf)

\* out-of-range evidence was clamped and a rule combined into an existing conclusion
C1_Witness ==
    /\ pc = "returned"
    /\ \E k \in DOMAIN evidence : ~InRange(evidence[k]) /\ InRange(facts[k])
    /\ \E i \in 1..Len(trace) : trace[i].previous_conclusion_cf # None

(* C2: the caller receives a (facts, trace) result only if every rule is
   well-formed, and a ValueError only if some rule is malformed; the error is
   raised at the first malformed rule whether or not its premises are present,
   no rule after it is processed and no result is returned with it. *)
C2_ResultOrValidationError ==
    /\ pc = "returned" =>
          /\ Malformed = {}
          /\ result = [facts |-> facts, trace |-> trace]
          /\ err = None
    /\ pc = "raised" =>
          /\ Malformed # {}
          /\ idx = FirstMalformed
          /\ err.type = "ValueError"
          /\ result = None
    /\ pc \in {"call", "loop"} => result = None /\ err = None
    /\ Malformed # {} =>
          /\ pc # "returned"
          /\ \A j \in RuleIndexes : j > FirstMalformed => outcome[j] = "pending"
          /\ \A k \in 1..Len(trace) : PosOf(trace[k]) < FirstMalformed

\* a malformed rule with an absent premise raised after an earlier rule had fired
C2_Witness ==
    /\ pc = "raised"
    /\ SomePremiseAbsent(facts, rules[idx])
    /\ Len(trace) >= 1

(* C3: whenever evaluate_rules raises on a malformed rule, the error identifies
   the id of the offending rule and an offending field (operator or rule_cf). *)
C3_ErrorNamesRuleAndField ==
    pc = "raised" =>
        LET rule == rules[idx] IN
        /\ "id" \in DOMAIN err.args /\ err.args.id = rule.id
        /\ \/ "operator" \in DOMAIN err.args /\ rule.operator \notin {"AND", "OR"}
           \/ "rule_cf" \in DOMAIN err.args /\ ~InUnit(rule.rule_cf)

(* C4 as stated: reaching a rule whose rule_cf is outside [0, 1] fails with the
   rule-strength error. *)
C4_Original ==
    pc = "raised" /\ ~InUnit(rules[idx].rule_cf) =>
        /\ "rule_cf" \in DOMAIN err.args
        /\ err.args.rule_cf = rules[idx].rule_cf

(* C4 amended: reaching a rule whose rule_cf is outside [0, 1] fails with a
   ValueError, the rule-strength error when the operator is AND or OR and the
   invalid-operator error otherwise; the coefficient is never clamped and used,
   the rule writes no conclusion and appends no trace entry. *)
C4_InvalidRuleCfRaises ==
    [][ (pc = "loop" /\ idx <= Len(rules) /\ ~InUnit(rules[idx].rule_cf)) =>
            /\ pc' = "raised"
            /\ err'.type = "ValueError"
            /\ IF rules[idx].operator \in {"AND", "OR"}
               THEN /\ DOMAIN err'.args = {"id", "rule_cf"}
                    /\ err'.args.rule_cf = rules[idx].rule_cf
               ELSE DOMAIN err'.args = {"operator"}
            /\ facts' = facts
            /\ trace' = trace
            /\ result' = None ]_vars

\* the rule-strength error was raised for a rule whose premises were present
C4_Witness ==
    /\ pc = "raised"
    /\ rules[idx].operator \in {"AND", "OR"}
    /\ ~InUnit(rules[idx].rule_cf)
    /\ ~SomePremiseAbsent(facts, rules[idx])
    /\ "rule_cf" \in DOMAIN err.args

(* C5: premises are read from the current fact mapping: the CF a fired rule
   observes for a premise is the value the closest earlier fired rule with that
   conclusion wrote, or the clamped evidence if there is none; and a rule is
   skipped only if some premise is neither in the evidence nor the conclusion
   of an earlier fired rule. *)
ValueBefore(k, p) ==
    LET earlier == {j \in 1..(k - 1) : trace[j].conclusion = p}
        last == CHOOSE j \in earlier : \A j2 \in earlier : j2 <= j
    IN  IF earlier # {} THEN trace[last].new_conclusion_cf
        ELSE IF p \in DOMAIN evidence THEN ClampCf(evidence[p])
        ELSE None

C5_PremisesReadCurrentFacts ==
    /\ \A k \in 1..Len(trace) :
        /\ Len(trace[k].premise_cfs) = Len(trace[k].premises)
        /\ \A m \in 1..Len(trace[k].premises) :
              trace[k].premise_cfs[m] = ValueBefore(k, trace[k].premises[m])
    /\ \A i \in RuleIndexes :
          outcome[i] = "skipped" =>
              \E m \in 1..Len(rules[i].premises) : rules[i].premises[m] \notin KeysBefore(i)

\* R2 fired on a premise that only R1 had concluded, and saw R1's value
C5_Witness ==
    /\ pc = "returned"
    /\ Len(trace) = 2
    /\ trace[1].conclusion \notin DOMAIN evidence
    /\ \E m \in 1..Len(trace[2].premises) :
          /\ trace[2].premises[m] = trace[1].conclusion
          /\ trace[2].premise_cfs[m] = trace[1].new_conclusion_cf

(* C6: one pass: the rules are considered one at a time in list order, a rule
   once considered is never reconsidered, and a skipped rule never gets a trace
   entry, even when a later rule concludes its missing premise. *)
C6_SinglePass ==
    /\ [](\A i \in RuleIndexes :
            outcome[i] # "pending" <=> (i < idx \/ (i = idx /\ pc = "raised")))
    /\ [](\A i \in RuleIndexes :
            outcome[i] = "skipped" =>
                \A k \in 1..Len(trace) : trace[k].rule_id # rules[i].id)
    /\ [][ /\ idx' = idx \/ idx' = idx + 1
           /\ \A i \in RuleIndexes :
                outcome[i] # "pending" => outcome'[i] = outcome[i] ]_vars

\* a rule stayed skipped although a later rule concluded its missing premise
C6_Witness ==
    /\ pc = "returned"
    /\ \E i, j \in RuleIndexes :
          /\ i < j
          /\ outcome[i] = "skipped"
          /\ outcome[j] = "fired"
          /\ rules[j].conclusion \notin DOMAIN evidence
          /\ \E m \in 1..Len(rules[i].premises) :
                rules[i].premises[m] = rules[j].conclusion
          /\ ~SomePremiseAbsent(facts, rules[i])

(* C7: the step taken on a well-formed rule with a premise absent from the
   current fact mapping leaves the fact mapping and the trace exactly as they
   were and moves on to the next rule, whatever the operator. *)
C7_AbsentPremiseSkips ==
    [][ (/\ pc = "loop"
         /\ idx <= Len(rules)
         /\ IsWellFormed(rules[idx])
         /\ SomePremiseAbsent(facts, rules[idx]))
        => (/\ facts' = facts
            /\ trace' = trace
            /\ idx' = idx + 1
            /\ pc' = "loop") ]_vars

\* an OR rule with one premise present and one absent was skipped
C7_Witness ==
    \E i \in RuleIndexes :
        /\ outcome[i] = "skipped"
        /\ rules[i].operator = "OR"
        /\ pc = "loop" /\ idx = i + 1
        /\ \E m \in 1..Len(rules[i].premises) : rules[i].premises[m] \in DOMAIN facts
        /\ SomePremiseAbsent(facts, rules[i])

(* C8: in every trace entry the premise CF is the least (AND) or greatest (OR)
   of the premise CFs observed, the contribution is clamp(premise_cf * rule_cf),
   and the new conclusion CF is serialCombine(old, contribution) when the
   conclusion existed and the contribution itself otherwise.  With {a: 0.8} and
   R1: AND[a] -> b (0.5), b = 0.4; with c = 0.6 and R2: AND[c] -> b (0.5) added,
   b = 0.58. *)
ScenarioR1 == Rule("R1", Body(<<"a">>, "AND", Half, "b"))
ScenarioR2 == Rule("R2", Body(<<"c">>, "AND", Half, "b"))

C8_FiringArithmetic ==
    /\ \A k \in 1..Len(trace) :
        LET e == trace[k]
            n == Len(e.premise_cfs)
        IN  /\ n > 0 =>
                /\ \E m \in 1..n : e.premise_cf = e.premise_cfs[m]
                /\ e.operator = "AND" => \A m \in 1..n : RLe(e.premise_cf, e.premise_cfs[m])
                /\ e.operator = "OR" => \A m \in 1..n : RLe(e.premise_cfs[m], e.premise_cf)
            /\ e.contrib_cf = ClampCf(RMul(e.premise_cf, e.rule_cf))
            /\ e.new_conclusion_cf =
                  IF e.previous_conclusion_cf = None
                  THEN e.contrib_cf
                  ELSE CfCombine(e.previous_conclusion_cf, e.contrib_cf)
    /\ (pc = "returned" /\ evidence = [k \in {"a"} |-> Rat(4, 5)] /\ rules = <<ScenarioR1>>)
          => facts["b"] = Rat(2, 5)
    /\ (/\ pc = "returned"
        /\ evidence = [k \in {"a", "c"} |-> IF k = "a" THEN Rat(4, 5) ELSE Rat(3, 5)]
        /\ rules = <<ScenarioR1, ScenarioR2>>)
          => facts["b"] = Rat(29, 50)

\* the two-rule scenario ran to its end
C8_Witness ==
    /\ pc = "returned"
    /\ evidence = [k \in {"a", "c"} |-> IF k = "a" THEN Rat(4, 5) ELSE Rat(3, 5)]
    /\ rules = <<ScenarioR1, ScenarioR2>>
    /\ Len(trace) = 2
    /\ trace[2].previous_conclusion_cf = Rat(2, 5)
    /\ facts["b"] = Rat(29, 50)

(* C9: the entry a firing appends has previous_conclusion_cf None exactly when
   the conclusion was not a key of the fact mapping just before the firing, and
   the conclusion's CF just before it otherwise; its new_conclusion_cf is the
   conclusion's CF just after the firing. *)
C9_PreviousAndNewConclusionCf ==
    [][ Len(trace') = Len(trace) + 1 =>
            LET e == trace'[Len(trace')] IN
            /\ e.previous_conclusion_cf = None <=> e.conclusion \notin DOMAIN facts
            /\ e.conclusion \in DOMAIN facts =>
                  e.previous_conclusion_cf = facts[e.conclusion]
            /\ e.conclusion \in DOMAIN facts'
            /\ e.new_conclusion_cf = facts'[e.conclusion] ]_vars

\* one entry for a new conclusion and one for an existing conclusion
C9_Witness ==
    /\ pc = "returned"
    /\ \E k \in 1..Len(trace) : trace[k].previous_conclusion_cf = None
    /\ \E k \in 1..Len(trace) :
          /\ trace[k].previous_conclusion_cf # None
          /\ trace[k].new_conclusion_cf # trace[k].previous_conclusion_cf

(* C10: the trace holds exactly one entry for each rule that was reached with
   all its premises present and none for any other rule, in the order of the
   rule list; it only ever grows by appending, and it is never longer than the
   rule list. *)
C10_TraceOfFiredRules ==
    /\ [](/\ Len(trace) <= Len(rules)
          /\ Len(trace) = Cardinality({i \in RuleIndexes : outcome[i] = "fired"})
          /\ \A k \in 1..Len(trace) :
                /\ \E i \in RuleIndexes : rules[i].id = trace[k].rule_id
                /\ outcome[PosOf(trace[k])] = "fired"
                /\ \A k2 \in 1..Len(trace) :
                      k < k2 => PosOf(trace[k]) < PosOf(trace[k2])
          /\ \A i \in RuleIndexes :
                (i < idx /\ IsWellFormed(rules[i])) =>
                    ((\E k \in 1..Len(trace) : trace[k].rule_id = rules[i].id)
                        <=> \A m \in 1..Len(rules[i].premises) :
                                rules[i].premises[m] \in KeysBefore(i)))
    /\ [][ \/ trace' = trace
           \/ /\ Len(trace') = Len(trace) + 1
              /\ SubSeq(trace', 1, Len(trace)) = trace ]_vars

\* of two rules the first was skipped and the second fired
C10_Witness ==
    /\ pc = "returned"
    /\ Len(rules) = 2
    /\ outcome[1] = "skipped"
    /\ outcome[2] = "fired"
    /\ Len(trace) = 1
    /\ trace[1].rule_id = rules[2].id

(* C11: the fact mapping keeps every key of the initial facts, and every fact
   that is not the conclusion of a fired rule is an initial fact whose CF is
   exactly the clamped initial value; this is what the caller is returned. *)
Clamped(x) == IF RLt(One, x) THEN One ELSE IF RLt(x, MinusOne) THEN MinusOne ELSE x

C11_InitialFactsKept ==
    /\ pc # "call" =>
          /\ DOMAIN evidence \subseteq DOMAIN facts
          /\ \A k \in DOMAIN facts :
                (\A j \in 1..Len(trace) : trace[j].conclusion # k) =>
                    /\ k \in DOMAIN evidence
                    /\ facts[k] = Clamped(evidence[k])
    /\ pc = "returned" => result.facts = facts

\* a rule fired and an out-of-range initial fact that no rule concluded was returned
C11_Witness ==
    /\ pc = "returned"
    /\ Len(trace) >= 1
    /\ \E k \in DOMAIN evidence :
          /\ \A j \in 1..Len(trace) : trace[j].conclusion # k
          /\ evidence[k] # Clamped(evidence[k])
          /\ result.facts[k] = Clamped(evidence[k])

(* C12: for two well-formed rules that share no fact name, the fact mapping
   returned for [R1, R2] is the one evaluate_rules yields for [R2, R1]. *)
NamesOf(rule) == {rule.premises[m] : m \in 1..Len(rule.premises)} \cup {rule.conclusion}

Independent(r1, r2) == NamesOf(r1) \cap NamesOf(r2) = {}

C12_IndependentRulesCommute ==
    (/\ pc = "returned"
     /\ Len(rules) = 2
     /\ IsWellFormed(rules[1]) /\ IsWellFormed(rules[2])
     /\ Independent(rules[1], rules[2]))
    => /\ result.facts = EvaluateFacts(evidence, <<rules[2], rules[1]>>)
       /\ result.facts = EvaluateFacts(evidence, rules)

\* two independent rules both fired
C12_Witness ==
    /\ pc = "returned"
    /\ Len(rules) = 2
    /\ Independent(rules[1], rules[2])
    /\ Len(trace) = 2
    /\ result.facts = EvaluateFacts(evidence, <<rules[2], rules[1]>>)

-----------------------------------------------------------------------------
(* Properties of the pure functions, under SpecPure *)

Returned(f) == fn = f /\ pc = "returned"

(* C13 as stated: serialCombine(0.8, -0.8) is resolved by the zero-denominator
   fallback clamp(a + b) and returns 0. *)
C13_Original ==
    (Returned("cf_combine") /\ args = <<Rat(4, 5), Rat(-4, 5)>>) =>
        /\ CombineBranch(args[1], args[2]) = "zero_denominator"
        /\ result = Zero

(* C13 amended: serialCombine(0.8, -0.8) does not divide by zero and returns 0;
   it is resolved by the quotient of the mixed-sign branch, whose denominator
   is 1 - 0.8 = 0.2, not by the fallback. *)
C13_CancellingOperands ==
    (Returned("cf_combine") /\ args = <<Rat(4, 5), Rat(-4, 5)>>) =>
        /\ CombineBranch(args[1], args[2]) = "quotient"
        /\ CombineDenominator(args[1], args[2]) = Rat(1, 5)
        /\ result = Clamped(RDiv(RAdd(args[1], args[2]), Rat(1, 5)))
        /\ result = Zero

\* cf_combine(0.8, -0.8) returned
C13_Witness ==
    Returned("cf_combine") /\ args = <<Rat(4, 5), Rat(-4, 5)>> /\ result = Zero

(* C14: for a, b in [-1, 1] cf_combine never divides by zero: outside the
   both-positive and both-negative cases the denominator 1 - min(|a|, |b|) is
   zero exactly when |a| = |b| = 1, the result is then clamp(a + b), and it is
   the clamped quotient in every other mixed case. *)
C14_NoDivisionByZero ==
    (fn = "cf_combine" /\ pc # "call" /\ InRange(args[1]) /\ InRange(args[2])) =>
        LET a == args[1]
            b == args[2]
            den == RSub(One, IF RLt(RAbs(b), RAbs(a)) THEN RAbs(b) ELSE RAbs(a))
            mixed == ~(RLt(Zero, a) /\ RLt(Zero, b)) /\ ~(RLt(a, Zero) /\ RLt(b, Zero))
        IN  /\ pc = "returned"
            /\ result # None
            /\ CombineDenominator(a, b) = den
            /\ mixed =>
                /\ den = Zero <=> (RAbs(a) = One /\ RAbs(b) = One)
                /\ CombineBranch(a, b) = IF den = Zero THEN "zero_denominator" ELSE "quotient"
                /\ den = Zero => result = Clamped(RAdd(a, b))
                /\ den # Zero => result = Clamped(RDiv(RAdd(a, b), den))
            /\ ~mixed => CombineBranch(a, b) \in {"both_positive", "both_negative"}

\* cf_combine(1, -1) returned through the fallback
C14_Witness ==
    /\ Returned("cf_combine")
    /\ args = <<One, MinusOne>>
    /\ CombineBranch(args[1], args[2]) = "zero_denominator"
    /\ result = Zero

(* C15: for a, b in [-1, 1] cf_combine returns clamp(a + b*(1-a)) when both are
   positive, clamp(a + b*(1+a)) when both are negative, and
   clamp((a+b) / (1 - min(|a|,|b|))) when the signs are opposite and the
   denominator is not zero; cf_combine(0.6, 0.6) = 0.84 and
   cf_combine(-0.6, -0.6) = -0.84. *)
C15_CombineFormulas ==
    (Returned("cf_combine") /\ InRange(args[1]) /\ InRange(args[2])) =>
        LET a == args[1]
            b == args[2]
            den == RSub(One, IF RLt(RAbs(b), RAbs(a)) THEN RAbs(b) ELSE RAbs(a))
        IN  /\ (RLt(Zero, a) /\ RLt(Zero, b)) =>
                  result = Clamped(RAdd(a, RMul(b, RSub(One, a))))
            /\ (RLt(a, Zero) /\ RLt(b, Zero)) =>
                  result = Clamped(RAdd(a, RMul(b, RAdd(One, a))))
            /\ (((RLt(Zero, a) /\ RLt(b, Zero)) \/ (RLt(a, Zero) /\ RLt(Zero, b)))
                    /\ den # Zero) =>
                  result = Clamped(RDiv(RAdd(a, b), den))
            /\ args = <<Rat(3, 5), Rat(3, 5)>> => result = Rat(21, 25)
            /\ args = <<Rat(-3, 5), Rat(-3, 5)>> => result = Rat(-21, 25)

\* cf_combine(-0.6, -0.6) returned -0.84
C15_Witness ==
    Returned("cf_combine") /\ args = <<Rat(-3, 5), Rat(-3, 5)>> /\ result = Rat(-21, 25)

(* C16: apply_rule raises the ValueError for every rule_cf outside [0, 1] and
   returns nothing; for every rule_cf in [0, 1] it returns
   clamp(evidence_cf * rule_cf), which is 0 when evidence_cf is 0. *)
C16_ApplyRule ==
    (fn = "apply_rule" /\ pc # "call") =>
        IF InUnit(args[2])
        THEN /\ pc = "returned"
             /\ err = None
             /\ result = Clamped(RMul(args[1], args[2]))
             /\ args[1] = Zero => result = Zero
        ELSE /\ pc = "raised"
             /\ result = None
             /\ err.type = "ValueError"
             /\ err.args.rule_cf = args[2]

\* apply_rule raised for a rule_cf of -0.1
C16_Witness ==
    fn = "apply_rule" /\ pc = "raised" /\ args[2] = Rat(-1, 10)

(* C17: cf_and([]) = 0 and cf_or([]) = 0; on a non-empty list cf_and returns an
   element that is <= every element and cf_or an element that is >= every
   element, so cf_and(cfs) <= cf_or(cfs). *)
C17_AndOr ==
    (pc = "returned" /\ fn \in {"cf_and", "cf_or"}) =>
        LET cfs == args[1]
            n == Len(cfs)
        IN  /\ n = 0 => result = Zero
            /\ n > 0 =>
                /\ \E m \in 1..n : result = cfs[m]
                /\ fn = "cf_and" =>
                      /\ \A m \in 1..n : RLe(result, cfs[m])
                      /\ RLe(result, CfOr(cfs))
                /\ fn = "cf_or" =>
                      /\ \A m \in 1..n : RLe(cfs[m], result)
                      /\ RLe(CfAnd(cfs), result)

\* cf_and returned the minimum of a list that does not start with it
C17_Witness ==
    /\ Returned("cf_and")
    /\ Len(args[1]) >= 2
    /\ result # args[1][1]
    /\ RLt(result, CfOr(args[1]))

(* C18: clamp_cf(x) lies in [-1, 1], is x when x already lies in [-1, 1], and
   clamping it again changes nothing. *)
C18_Clamp ==
    Returned("clamp_cf") =>
        /\ InRange(result)
        /\ InRange(args[1]) => result = args[1]
        /\ ClampCf(result) = result

\* a value below -1 was clamped
C18_Witness ==
    Returned("clamp_cf") /\ RLt(args[1], MinusOne) /\ result = MinusOne

(* C19 as stated: for every (label, prob) pair the result holds the fact named
   "img_" followed by the label, with CF equal to prob clamped to [0, 1]. *)
Unit(x) == IF RLt(One, x) THEN One ELSE IF RLt(x, Zero) THEN Zero ELSE x

IsPair(item) == DOMAIN item = {"label", "prob"}

C19_Original ==
    Returned("build_evidence_from_model") =>
        \A i \in 1..Len(args[1]) :
            IsPair(args[1][i]) =>
                /\ ImgPrefix \o args[1][i].label \in DOMAIN result
                /\ result[ImgPrefix \o args[1][i].label] = Unit(args[1][i].prob)

(* C19 amended: build_evidence_from_model never fails on out-of-range
   probabilities; for every (label, prob) pair the result holds the fact named
   "img_" followed by the label stripped of surrounding whitespace, and its CF
   is the prob, clamped to [0, 1], of the last pair with that stripped label;
   every value of the result lies in [0, 1]; no label is rejected. *)
C19_ModelEvidence ==
    (fn = "build_evidence_from_model" /\ pc # "call") =>
        /\ pc = "returned"
        /\ \A k \in DOMAIN result : InUnit(result[k])
        /\ (\A i \in 1..Len(args[1]) : IsPair(args[1][i])) =>
            /\ DOMAIN result =
                  {ImgPrefix \o Strip(args[1][i].label) : i \in 1..Len(args[1])}
            /\ \A i \in 1..Len(args[1]) :
                  (\A j \in (i + 1)..Len(args[1]) :
                        Strip(args[1][j].label) # Strip(args[1][i].label))
                  => result[ImgPrefix \o Strip(args[1][i].label)] = Unit(args[1][i].prob)

\* [{label: "mel", prob: 0.62}, {label: " m", prob: 1.4}] gave img_mel 0.62, img_m 1.0
C19_Witness ==
    /\ Returned("build_evidence_from_model")
    /\ args[1] = <<[label |-> <<"m", "e", "l">>, prob |-> Rat(31, 50)],
                   [label |-> <<" ", "m">>, prob |-> Rat(7, 5)]>>
    /\ result[<<"i", "m", "g", "_", "m", "e", "l">>] = Rat(31, 50)
    /\ result[<<"i", "m", "g", "_", "m">>] = One

(* C20: build_evidence_from_intake returns a mapping over exactly the keys
   rapid_change, bleeding, itching and pain; each maps to 0.7, 0.6, 0.3, 0.4
   when its answer is true and to 0 when it is false or absent; unrecognized
   keys never appear and never make the call fail. *)
C20_IntakeEvidence ==
    (fn = "build_evidence_from_intake" /\ pc # "call") =>
        LET intake == args[1]
            fixed == [k \in {"rapid_change", "bleeding", "itching", "pain"} |->
                        CASE k = "rapid_change" -> Rat(7, 10)
                          [] k = "bleeding" -> Rat(3, 5)
                          [] k = "itching" -> Rat(3, 10)
                          [] k = "pain" -> Rat(2, 5)]
        IN  /\ pc = "returned"
            /\ DOMAIN result = {"rapid_change", "bleeding", "itching", "pain"}
            /\ \A k \in DOMAIN result :
                  result[k] = IF k \in DOMAIN intake /\ intake[k] THEN fixed[k] ELSE Zero

\* an unrecognized key, an absent key, a false and a true answer
C20_Witness ==
    /\ Returned("build_evidence_from_intake")
    /\ DOMAIN args[1] = {"age", "bleeding", "itching", "pain"}
    /\ args[1]["bleeding"] /\ ~args[1]["itching"]
    /\ result["rapid_change"] = Zero
    /\ result["bleeding"] = Rat(3, 5)

-----------------------------------------------------------------------------
(* Properties of interleaved calls, under SpecPar *)

\* the steps call c has taken, told from its position
StepsTaken(c) ==
    CASE pc[c] = "call" -> 0
      [] pc[c] = "loop" -> idx[c]
      [] pc[c] = "raised" -> idx[c] + 1
      [] pc[c] = "returned" -> Len(rules[c]) + 2

(* C21: however the steps of the calls are interleaved, the locals of every
   call are at every moment those of the same call run alone for as many
   steps, and a finished call has handed its caller exactly the result, or the
   error, of the call run alone. *)
C21_CallsDoNotInterfere ==
    \A c \in Calls :
        /\ CallState(c) = AloneAfter(evidence[c], rules[c], StepsTaken(c))
        /\ pc[c] \in {"returned", "raised"} =>
              /\ pc[c] = RunAlone(evidence[c], rules[c]).pc
              /\ result[c] = RunAlone(evidence[c], rules[c]).result
              /\ err[c] = RunAlone(evidence[c], rules[c]).err
        /\ pc[c] = "returned" =>
              result[c].facts = EvaluateFacts(evidence[c], rules[c])

\* two calls on different evidence both returned, each with fired rules
C21_Witness ==
    /\ pc[1] = "returned" /\ pc[2] = "returned"
    /\ evidence[1] # evidence[2]
    /\ Len(result[1].trace) >= 1 /\ Len(result[2].trace) >= 1
    /\ result[1] # result[2]
    /\ result[2] = RunAlone(evidence[2], rules[2]).result

-----------------------------------------------------------------------------
(* C22: no step of evaluate_rules, on the way to a result or to an error,
   changes the caller's evidence mapping, the rule list or a rule in it: the
   evidence keeps its unclamped values and gains no key. *)
C22_ArgumentsNotModified ==
    [][ /\ evidence' = evidence
        /\ DOMAIN evidence' = DOMAIN evidence
        /\ rules' = rules
        /\ \A i \in 1..Len(rules) : rules'[i] = rules[i] ]_vars

\* a call returned clamped facts with a new conclusion; the evidence still
\* holds the unclamped value and lacks the conclusion
C22_Witness ==
    /\ pc = "returned"
    /\ \E k \in DOMAIN evidence :
          ~InRange(evidence[k]) /\ result.facts[k] # evidence[k]
    /\ \E i \in 1..Len(trace) :
          /\ trace[i].conclusion \notin DOMAIN evidence
          /\ trace[i].conclusion \in DOMAIN result.facts

-----------------------------------------------------------------------------
(* C23: the documented convention for serialCombine treats 0 as non-negative:
   a + b*(1-a) when both operands are >= 0, a + b*(1+a) when both are < 0, and
   the mixed-sign quotient (with its zero-denominator fallback) otherwise. *)
DocumentedCombine(a, b) ==
    IF RLe(Zero, a) /\ RLe(Zero, b)
    THEN Clamped(RAdd(a, RMul(b, RSub(One, a))))
    ELSE IF RLt(a, Zero) /\ RLt(b, Zero)
    THEN Clamped(RAdd(a, RMul(b, RAdd(One, a))))
    ELSE LET m == IF RLt(RAbs(b), RAbs(a)) THEN RAbs(b) ELSE RAbs(a)
         IN  IF m = One
             THEN Clamped(RAdd(a, b))
             ELSE Clamped(RDiv(RAdd(a, b), RSub(One, m)))

(* C23: for a, b in [-1, 1] with at least one operand exactly 0, cf_combine
   takes its mixed-sign branch and returns what the documented convention
   returns: cf_combine(a, 0) = a and cf_combine(0, b) = b. *)
C23_ZeroOperand ==
    (/\ Returned("cf_combine")
     /\ InRange(args[1]) /\ InRange(args[2])
     /\ (args[1] = Zero \/ args[2] = Zero))
    => /\ CombineBranch(args[1], args[2]) = "quotient"
       /\ result = DocumentedCombine(args[1], args[2])
       /\ args[2] = Zero => result = args[1]
       /\ args[1] = Zero => result = args[2]

\* cf_combine(0.5, 0) returned 0.5 where the convention uses a + b*(1-a)
C23_Witness ==
    /\ Returned("cf_combine")
    /\ args = <<Rat(1, 2), Zero>>
    /\ result = Rat(1, 2)
    /\ result = DocumentedCombine(args[1], args[2])

-----------------------------------------------------------------------------
(* C24: a well-formed rule whose premise list repeats a fact name, reached
   with its premises present, fires without error; the premise CF list of its
   trace entry has one value per occurrence, the repeated name's current CF
   once for each, and the premise CF is the least (AND) or greatest (OR) value
   of that list. *)
RepeatsPremise(rule) ==
    \E m1, m2 \in 1..Len(rule.premises) :
        m1 # m2 /\ rule.premises[m1] = rule.premises[m2]

C24_RepeatedPremise ==
    [][ (/\ pc = "loop"
         /\ idx <= Len(rules)
         /\ IsWellFormed(rules[idx])
         /\ RepeatsPremise(rules[idx])
         /\ ~SomePremiseAbsent(facts, rules[idx]))
        => (/\ pc' = "loop"
            /\ err' = None
            /\ Len(trace') = Len(trace) + 1
            /\ LET e == trace'[Len(trace')]
                   n == Len(rules[idx].premises)
               IN  /\ e.rule_id = rules[idx].id
                   /\ e.premises = rules[idx].premises
                   /\ Len(e.premise_cfs) = n
                   /\ \A m \in 1..n : e.premise_cfs[m] = facts[rules[idx].premises[m]]
                   /\ \E m \in 1..n : e.premise_cf = e.premise_cfs[m]
                   /\ rules[idx].operator = "AND" =>
                          \A m \in 1..n : RLe(e.premise_cf, e.premise_cfs[m])
                   /\ rules[idx].operator = "OR" =>
                          \A m \in 1..n : RLe(e.premise_cfs[m], e.premise_cf)) ]_vars

\* the rule OR[c, c] -> b fired and observed the CF of c twice
C24_Witness ==
    /\ pc = "returned"
    /\ \E k \in 1..Len(trace) :
          /\ trace[k].premises = <<"c", "c">>
          /\ Len(trace[k].premise_cfs) = 2
          /\ trace[k].premise_cfs[1] = trace[k].premise_cfs[2]
          /\ trace[k].premise_cf = trace[k].premise_cfs[1]

-----------------------------------------------------------------------------
(* C25: every call of evaluate_rules eventually finishes, with a result or
   with a validation error; each iteration of the loop either ends the call
   with an error or moves on to the next rule, so at most Len(rules) rules are
   considered, and a firing never moves the loop back to the same or an
   earlier rule. *)
C25_Terminates ==
    /\ <>(pc \in {"returned", "raised"})
    /\ [](idx <= Len(rules) + 1)
    /\ [][ (pc = "loop" /\ idx <= Len(rules)) =>
              \/ pc' = "loop" /\ idx' = idx + 1
              \/ pc' = "raised" /\ idx' = idx ]_vars
    /\ [][ Len(trace') > Len(trace) => idx' = idx + 1 ]_vars
    /\ [][ idx' >= idx ]_vars

\* a call over two rules returned after one was skipped and the last had fired
C25_Witness ==
    /\ pc = "returned"
    /\ Len(rules) = 2
    /\ idx = Len(rules) + 1
    /\ outcome[Len(rules)] = "fired"
    /\ \E i \in RuleIndexes : outcome[i] = "skipped"

-----------------------------------------------------------------------------
(* Properties of the default rule list, under SpecSkin *)

NoInitialFlag ==
    "high_risk_flag" \notin DOMAIN evidence /\ "moderate_risk_flag" \notin DOMAIN evidence

\* some rule with this conclusion has fired
Concluded(name) == \E k \in 1..Len(trace) : trace[k].conclusion = name

ReviewIndex == CHOOSE i \in RuleIndexes : rules[i].id = "R_NEEDS_REVIEW"

(* C26 as stated: with neither flag among the initial facts, when the pass has
   not concluded both flags R_NEEDS_REVIEW is skipped and
   needs_clinician_review is absent from the final facts. *)
C26_Original ==
    (/\ pc = "returned"
     /\ NoInitialFlag
     /\ ~(Concluded("high_risk_flag") /\ Concluded("moderate_risk_flag")))
    => /\ outcome[ReviewIndex] = "skipped"
       /\ "needs_clinician_review" \notin DOMAIN result.facts

(* C26 amended: with the default rule list and neither flag among the initial
   facts, R_NEEDS_REVIEW fires only after a high-risk rule and a moderate-risk
   rule have both fired; when only one flag or none was concluded it is skipped
   despite its OR operator, and needs_clinician_review is then in the final
   facts only if it was an initial fact, with its clamped initial CF. *)
C26_ReviewNeedsBothFlags ==
    NoInitialFlag =>
        /\ \A k \in 1..Len(trace) :
              trace[k].rule_id = "R_NEEDS_REVIEW" =>
                  /\ trace[k].operator = "OR"
                  /\ \E i \in 1..(k - 1) :
                        /\ trace[i].conclusion = "high_risk_flag"
                        /\ trace[i].rule_id \in {"R_MEL_RAPID", "R_MEL_BLEED", "R_MEL_ALONE"}
                  /\ \E j \in 1..(k - 1) :
                        /\ trace[j].conclusion = "moderate_risk_flag"
                        /\ trace[j].rule_id \in {"R_BCC_AKIEC", "R_BCC_ALONE", "R_AKIEC_ALONE",
                                                 "R_NV_RAPID", "R_NV_BLEED"}
        /\ pc = "returned" =>
              IF Concluded("high_risk_flag") /\ Concluded("moderate_risk_flag")
              THEN /\ outcome[ReviewIndex] = "fired"
                   /\ "needs_clinician_review" \in DOMAIN result.facts
              ELSE /\ outcome[ReviewIndex] = "skipped"
                   /\ ~Concluded("needs_clinician_review")
                   /\ "needs_clinician_review" \in DOMAIN result.facts
                          <=> "needs_clinician_review" \in DOMAIN evidence
                   /\ "needs_clinician_review" \in DOMAIN evidence =>
                          result.facts["needs_clinician_review"]
                              = Clamped(evidence["needs_clinician_review"])
        /\ (pc = "returned" /\ DOMAIN evidence = {"img_mel"}) =>
              /\ DOMAIN result.facts = {"img_mel", "high_risk_flag"}
              /\ outcome[ReviewIndex] = "skipped"

\* only img_mel was given: the high-risk flag was concluded, the review was not
C26_Witness ==
    /\ pc = "returned"
    /\ DOMAIN evidence = {"img_mel"}
    /\ Concluded("high_risk_flag")
    /\ ~Concluded("moderate_risk_flag")
    /\ outcome[ReviewIndex] = "skipped"
    /\ "needs_clinician_review" \notin DOMAIN result.facts

-----------------------------------------------------------------------------
(* Two rules with the same conclusion, under Spec *)

PremiseNames(rule) == {rule.premises[m] : m \in 1..Len(rule.premises)}

\* two well-formed rules that conclude the same fact and do not read it
SameConclusionPair ==
    /\ Len(rules) = 2
    /\ IsWellFormed(rules[1]) /\ IsWellFormed(rules[2])
    /\ rules[1].conclusion = rules[2].conclusion
    /\ rules[1].conclusion \notin PremiseNames(rules[1]) \cup PremiseNames(rules[2])

\* the CF of name in a fact mapping, None when absent
CfOf(f, name) == IF name \in DOMAIN f THEN f[name] ELSE None

(* C27 as stated: for any initial facts, the conclusion at CF 1 or -1
   included, two well-formed rules that conclude the same fact, do not read it
   and read different facts give it the same final CF in either order. *)
C27_Original ==
    (/\ pc = "returned"
     /\ SameConclusionPair
     /\ PremiseNames(rules[1]) \cap PremiseNames(rules[2]) = {})
    => CfOf(result.facts, rules[1].conclusion)
          = CfOf(EvaluateFacts(evidence, <<rules[2], rules[1]>>), rules[1].conclusion)

(* C27 amended: two well-formed rules that conclude the same fact c and do not
   read c give c the same final CF in either order whenever c is not an
   initial fact or its clamped initial CF lies strictly between -1 and 1.
   When c starts at exactly 1 or -1 the order can matter. *)
C27_SameConclusionCommutes ==
    (/\ pc = "returned"
     /\ SameConclusionPair
     /\ rules[1].conclusion \in DOMAIN evidence =>
            /\ RLt(MinusOne, evidence[rules[1].conclusion])
            /\ RLt(evidence[rules[1].conclusion], One))
    => CfOf(result.facts, rules[1].conclusion)
          = CfOf(EvaluateFacts(evidence, <<rules[2], rules[1]>>), rules[1].conclusion)

\* contributions of opposite signs, one of them -1 or 1, were merged into an
\* existing conclusion
C27_Witness ==
    /\ pc = "returned"
    /\ SameConclusionPair
    /\ rules[1] # rules[2]
    /\ rules[1].conclusion \in DOMAIN evidence
    /\ RLt(MinusOne, evidence[rules[1].conclusion])
    /\ RLt(evidence[rules[1].conclusion], One)
    /\ Len(trace) = 2
    /\ RAbs(trace[1].contrib_cf) = One
    /\ RLt(RMul(trace[1].contrib_cf, trace[2].contrib_cf), Zero)
    /\ result.facts[rules[1].conclusion]
          = EvaluateFacts(evidence, <<rules[2], rules[1]>>)[rules[1].conclusion]

-----------------------------------------------------------------------------
(* C28: the step taken on a well-formed rule with an empty premise list is
   never a skip and never an error: it appends a trace entry with an empty
   premise CF list, premise CF 0 and contribution 0; the conclusion is created
   with CF 0 when it was absent and keeps its CF when it existed; no other fact
   changes. *)
C28_EmptyPremisesFire ==
    [][ (/\ pc = "loop"
         /\ idx <= Len(rules)
         /\ IsWellFormed(rules[idx])
         /\ rules[idx].premises = << >>)
        => (/\ pc' = "loop"
            /\ idx' = idx + 1
            /\ err' = None
            /\ outcome'[idx] = "fired"
            /\ Len(trace') = Len(trace) + 1
            /\ LET e == trace'[Len(trace')]
                   c == rules[idx].conclusion
               IN  /\ e.rule_id = rules[idx].id
                   /\ e.premise_cfs = << >>
                   /\ e.premise_cf = Zero
                   /\ e.contrib_cf = Zero
                   /\ DOMAIN facts' = DOMAIN facts \cup {c}
                   /\ \A k \in DOMAIN facts : facts'[k] = facts[k]
                   /\ c \notin DOMAIN facts =>
                          /\ facts'[c] = Zero
                          /\ e.previous_conclusion_cf = None
                   /\ c \in DOMAIN facts => e.previous_conclusion_cf = facts[c]
                   /\ e.new_conclusion_cf = facts'[c]) ]_vars

\* an AND rule without premises created its conclusion with CF 0 and an OR
\* rule without premises left an existing non-zero conclusion as it was
C28_Witness ==
    /\ pc = "returned"
    /\ Len(trace) = 2
    /\ \E k \in 1..2 :
          /\ trace[k].premises = << >>
          /\ trace[k].operator = "AND"
          /\ trace[k].previous_conclusion_cf = None
          /\ trace[k].new_conclusion_cf = Zero
    /\ \E k \in 1..2 :
          /\ trace[k].premises = << >>
          /\ trace[k].operator = "OR"
          /\ trace[k].previous_conclusion_cf \notin {None, Zero}
          /\ trace[k].new_conclusion_cf = trace[k].previous_conclusion_cf

-----------------------------------------------------------------------------
(* C29: after any prefix of the pass the fact mapping and the trace agree: the
   keys of the facts are the initial keys plus the conclusions of the entries
   so far; a fact that some entry concludes has the new_conclusion_cf of the
   last such entry; and each entry's previous_conclusion_cf is the
   new_conclusion_cf of the closest earlier entry with the same conclusion, or
   the clamped initial value when there is none and the fact was initial. *)
EntriesFor(name, n) == {j \in 1..n : trace[j].conclusion = name}

LastEntryFor(name, n) ==
    CHOOSE j \in EntriesFor(name, n) : \A j2 \in EntriesFor(name, n) : j2 <= j

C29_FactsAgreeWithTrace ==
    pc # "call" =>
        /\ DOMAIN facts =
              DOMAIN evidence \cup {trace[k].conclusion : k \in 1..Len(trace)}
        /\ \A name \in DOMAIN facts :
              EntriesFor(name, Len(trace)) # {} =>
                  facts[name] = trace[LastEntryFor(name, Len(trace))].new_conclusion_cf
        /\ \A k \in 1..Len(trace) :
              LET name == trace[k].conclusion
              IN  IF EntriesFor(name, k - 1) # {}
                  THEN trace[k].previous_conclusion_cf
                          = trace[LastEntryFor(name, k - 1)].new_conclusion_cf
                  ELSE IF name \in DOMAIN evidence
                  THEN trace[k].previous_conclusion_cf = Clamped(evidence[name])
                  ELSE trace[k].previous_conclusion_cf = None

\* two rules changed the same initial fact, whose initial value was clamped
C29_Witness ==
    /\ pc = "loop"
    /\ Len(trace) = 2
    /\ trace[1].conclusion = trace[2].conclusion
    /\ trace[1].conclusion \in DOMAIN evidence
    /\ ~InRange(evidence[trace[1].conclusion])
    /\ trace[1].new_conclusion_cf # trace[1].previous_conclusion_cf
    /\ trace[2].previous_conclusion_cf = trace[1].new_conclusion_cf
    /\ trace[2].new_conclusion_cf # trace[2].previous_conclusion_cf
    /\ facts[trace[2].conclusion] = trace[2].new_conclusion_cf

(* C30: when every initial fact CF is >= 0 and every rule is well-formed,
   every fact CF lies in [0, 1] at every point of the pass, every contribution
   is >= 0, and a rule that fires on an existing conclusion never lowers its
   CF. *)
C30_NonNegativeFactsGrow ==
    (/\ \A k \in DOMAIN evidence : RLe(Zero, evidence[k])
     /\ \A i \in RuleIndexes : IsWellFormed(rules[i]))
    => /\ \A k \in DOMAIN facts : InUnit(facts[k])
       /\ \A i \in 1..Len(trace) :
             /\ InUnit(trace[i].contrib_cf)
             /\ InUnit(trace[i].new_conclusion_cf)
             /\ trace[i].previous_conclusion_cf # None =>
                   /\ RLe(trace[i].previous_conclusion_cf, trace[i].new_conclusion_cf)
                   /\ RLe(trace[i].contrib_cf, trace[i].new_conclusion_cf)

\* from non-negative evidence a rule raised an existing conclusion with a
\* contribution smaller than the conclusion's CF
C30_Witness ==
    /\ pc = "returned"
    /\ \A k \in DOMAIN evidence : RLe(Zero, evidence[k])
    /\ \E k \in DOMAIN evidence : RLt(One, evidence[k])
    /\ \E i \in 1..Len(trace) :
          /\ trace[i].previous_conclusion_cf # None
          /\ RLt(trace[i].contrib_cf, trace[i].previous_conclusion_cf)
          /\ RLt(trace[i].previous_conclusion_cf, trace[i].new_conclusion_cf)

====
